---- MODULE Spec2Model ----
(***************************************************************************)
(* Model of the anonymous-feedback bot (ad/snitch-bot): the webhook        *)
(* handlers of src/src/index.js (the current handlers, lines 811-1674),    *)
(* the session store of src/src/session.js, the trust store of auth.js     *)
(* (src/unnamed/part_002), the admin payload of src/src/formatter.js and   *)
(* the retrying outbound client of src/src/telegram.js.                    *)
(*                                                                         *)
(* One user is modelled.  Every webhook request runs as its own            *)
(* invocation (a handler slot); an invocation is cut into steps at the     *)
(* awaits that touch the KV store, the admin chat or the timer, so that    *)
(* invocations interleave exactly where the JavaScript ones can.  Replies  *)
(* to the user never change control flow (sendMessage and                  *)
(* answerCallbackQuery catch their own errors) and are recorded in the     *)
(* step that issues them.                                                  *)
(***************************************************************************)
EXTENDS Integers, Sequences, FiniteSets, TLC

----------------------------------------------------------------------------
(* Bounds of the model *)

MaxHandlers == 2      \* webhook invocations that may be in flight at once
MaxEvents == 2        \* inbound events per run
MaxFaults == 1        \* KV / outbound failures the environment may inject
MaxTime == 1000       \* the clock may always advance up to here (ms)
TickMs == 500         \* granularity of the clock (ms)
MaxBurst == 3         \* media-group events of one burst
MaxResponses == 4     \* scripted responses to one apiRequest call
IdleTickSec == 1800   \* granularity of the clock between events (s)
MaxIdleSec == 7200    \* how long a run with idle time lasts (s)

(* Program constants *)

QuietWindowMs == 1000 \* setTimeout(resolve, 1000) and the >= 1000 check
ApiRetries == 3       \* apiRequest(method, params, env, retries = 3)
BackoffBaseMs == 1000 \* Math.pow(2, attempt) * 1000
SESSION_TTL == 3600   \* const SESSION_TTL = 3600 (seconds)

Null == "null"
AccessToken == "secret"

Categories == {"idea", "problem"}
Topics == {"salary", "other"}
Texts == {"great job"}
GroupIds == {"g1", "g2"}

Slots == 1..MaxHandlers

----------------------------------------------------------------------------
(* Session store (src/src/session.js) *)

\* KV.get returns null when the key is absent
NoSession == [step |-> "none"]

\* the defaults of updateSession for a user without a stored session, here
\* one created at time 0
DefaultSession ==
  [step |-> "category", category |-> Null, topic |-> Null,
   messageText |-> Null, mediaItems |-> <<>>, mediaGroupId |-> Null,
   waitingForMediaGroup |-> FALSE, sentiment |-> Null, createdAt |-> 0]

NoUpdates == [f \in {} |-> Null]

\* session = { ...session, ...updates }
MergeUpdates(session, updates) ==
  [f \in (DOMAIN session) \cup (DOMAIN updates) |->
     IF f \in DOMAIN updates THEN updates[f] ELSE session[f]]

\* what updateSession writes at time t, given what its getSession returned
UpdatedSession(read, updates, t) ==
  MergeUpdates(IF read = NoSession THEN [DefaultSession EXCEPT !.createdAt = t]
               ELSE read,
               updates)

\* a put that takes the TTL for milliseconds
PutExpirySeconds(t) == t + SESSION_TTL

\* KV.put(key, value, {expirationTtl: SESSION_TTL}) at time t (ms): the key
\* lives until then
PutExpiry(t) == t + SESSION_TTL * 1000

\* JavaScript truthiness of messageText (null and '' are falsy)
HasText(t) == t # Null /\ t # ""

----------------------------------------------------------------------------
(* Admin payload (src/src/formatter.js) *)

CategoryName(c) ==
  CASE c = "idea" -> "Ideya / predlozhenie"
    [] c = "problem" -> "Problema / zhaloba"
    [] c = "gratitude" -> "Blagodarnost / priznanie"
    [] OTHER -> c

CategoryEmoji(c) ==
  CASE c = "idea" -> "speech"
    [] c = "problem" -> "warning"
    [] c = "gratitude" -> "heart"
    [] OTHER -> "envelope"

TopicName(t) ==
  CASE t = "processes" -> "Processy"
    [] t = "colleagues" -> "Kollegi"
    [] t = "conditions" -> "Usloviya"
    [] t = "salary" -> "Zarplata"
    [] t = "management" -> "Menedzhment"
    [] t = "other" -> "Drugoe"
    [] OTHER -> t

\* a formatter that prints the topic where the category belongs
formatAdminMessageSwapped(session) ==
  [emoji |-> CategoryEmoji(session.category),
   category |-> TopicName(session.topic),
   topic |-> CategoryName(session.category),
   body |-> IF HasText(session.messageText) THEN session.messageText
            ELSE "bez soobshcheniya"]

formatAdminMessage(session) ==
  [emoji |-> CategoryEmoji(session.category),
   category |-> CategoryName(session.category),
   topic |-> TopicName(session.topic),
   body |-> IF HasText(session.messageText) THEN session.messageText
            ELSE "bez soobshcheniya"]

\* a dispatcher that captions every item of a media group
AdminCallCaptionAll(session) ==
  LET items == session.mediaItems
      formattedMessage == formatAdminMessage(session)
  IN [method |-> IF Len(items) > 1 THEN "sendMediaGroup"
                 ELSE IF Len(items) = 1 THEN
                   (CASE items[1].type = "photo" -> "sendPhoto"
                      [] items[1].type = "video" -> "sendVideo"
                      [] items[1].type = "document" -> "sendDocument"
                      [] OTHER -> "none")
                 ELSE "sendMessage",
      text |-> formattedMessage,
      media |-> items,
      captions |-> [index \in 1..Len(items) |-> <<formattedMessage>>],
      chat_id |-> ""]

\* the single outbound call forwardMessageToAdmin makes, by attachment count:
\* its method, the formatted message, the attachments, and the caption each
\* attachment is sent with (<<>> where it is undefined: all but the first of
\* a group)
AdminCall(session) ==
  LET items == session.mediaItems
      formattedMessage == formatAdminMessage(session)
  IN [method |-> IF Len(items) > 1 THEN "sendMediaGroup"
                 ELSE IF Len(items) = 1 THEN
                   (CASE items[1].type = "photo" -> "sendPhoto"
                      [] items[1].type = "video" -> "sendVideo"
                      [] items[1].type = "document" -> "sendDocument"
                      [] OTHER -> "none")
                 ELSE "sendMessage",
      text |-> formattedMessage,
      media |-> items,
      captions |-> [index \in 1..Len(items) |->
                      IF index = 1 THEN <<formattedMessage>> ELSE <<>>],
      chat_id |-> ""]

----------------------------------------------------------------------------
(* Configuration (src/src/config.js); an unset binding is the empty string *)

Required == {"TELEGRAM_TOKEN", "ADMIN_CHAT_ID", "ACCESS_TOKEN"}

validateEnv(e) ==
  LET missing == {key \in Required : e[key] = ""}
  IN [valid |-> missing = {}, missing |-> missing]

\* env.X || null
OrNull(v) == IF v = "" THEN Null ELSE v

getConfig(e) ==
  [telegramToken |-> e.TELEGRAM_TOKEN,
   adminChatId |-> e.ADMIN_CHAT_ID,
   accessToken |-> e.ACCESS_TOKEN,
   accountId |-> OrNull(e.ACCOUNT_ID),
   cfAiToken |-> OrNull(e.CF_AI_TOKEN),
   testMode |-> e.TEST_MODE = "true",
   adminChatIdTest |-> OrNull(e.ADMIN_CHAT_ID_TEST),
   aiEnabled |-> OrNull(e.CF_AI_TOKEN) # Null /\ OrNull(e.ACCOUNT_ID) # Null]

\* a production deployment: the required bindings and nothing else
ProdEnv ==
  [TELEGRAM_TOKEN |-> "bot-token", ADMIN_CHAT_ID |-> "admin-chat",
   ACCESS_TOKEN |-> AccessToken, TEST_MODE |-> "", ADMIN_CHAT_ID_TEST |-> "",
   ACCOUNT_ID |-> "", CF_AI_TOKEN |-> ""]

\* the deployments validateEnv accepts, with and without test mode, test
\* chat and AI credentials
ValidEnvs ==
  {[ProdEnv EXCEPT !.TEST_MODE = tm, !.ADMIN_CHAT_ID_TEST = tc,
                   !.ACCOUNT_ID = ai, !.CF_AI_TOKEN = ai] :
     tm \in {"", "true"}, tc \in {"", "test-chat"}, ai \in {"", "ai-key"}}

\* in a private chat message.chat.id is the id of the user
Sender(u) == [userId |-> u, chatId |-> u]

Senders == {Sender(u) : u \in {"user-1", "user-2"}}

\* const adminChatId = config.testMode && config.adminChatIdTest ? ... (1505)
AdminChatId(config) ==
  IF config.testMode /\ config.adminChatIdTest # Null
  THEN config.adminChatIdTest
  ELSE config.adminChatId

\* a delivery that signs the payload with the id of the sender
forwardMessageToAdminSigned(userId, chatId, session, e) ==
  [AdminCall(session) EXCEPT !.chat_id = AdminChatId(getConfig(e)),
                             !.text.body = <<@, userId>>]

\* the outbound call of forwardMessageToAdmin(userId, chatId, session, env)
\* to the admin chat (1502-1550)
forwardMessageToAdmin(userId, chatId, session, e) ==
  [AdminCall(session) EXCEPT !.chat_id = AdminChatId(getConfig(e))]

----------------------------------------------------------------------------
(* Moderation (ai.js, src/unnamed/part_002 1-150); scores in thousandths  *)

isAIEnabled(e) == e.CF_AI_TOKEN # "" /\ e.ACCOUNT_ID # ""

\* the answer of the scorer to a text: the scores of its two labels
callAI(text) ==
  CASE text = "this is awful" -> [NEGATIVE |-> 900, POSITIVE |-> 100]
    [] text = "great job" -> [NEGATIVE |-> 50, POSITIVE |-> 950]
    [] OTHER -> [NEGATIVE |-> 500, POSITIVE |-> 500]

\* the sentiment analyzeSentiment(text, env) returns, Null for its null:
\* AI disabled, no text, or (ok false) the call to the scorer failed
analyzeSentiment(text, e, ok) ==
  IF ~isAIEnabled(e) THEN Null
  ELSE IF ~HasText(text) THEN Null
  ELSE IF ~ok THEN Null
  ELSE IF callAI(text).NEGATIVE > 600 THEN "NEGATIVE"
  ELSE IF callAI(text).POSITIVE > 600 THEN "POSITIVE"
  ELSE "NEUTRAL"

----------------------------------------------------------------------------
(* Inbound events *)

NoEvent == [type |-> "none", data |-> "", arg |-> "", text |-> "",
            media |-> <<>>, gid |-> Null]

Cmd(data, arg) == [NoEvent EXCEPT !.type = "cmd", !.data = data, !.arg = arg]
Cb(data, arg) == [NoEvent EXCEPT !.type = "cb", !.data = data, !.arg = arg]
Msg(text, media, gid) ==
  [NoEvent EXCEPT !.type = "msg", !.text = text, !.media = media, !.gid = gid]

\* the attachment of the n-th event of the run: file ids are unique
Photo(n) == <<[type |-> "photo", fileId |-> n]>>

Commands ==
  {Cmd("/start", AccessToken), Cmd("/start", "wrong"), Cmd("/start", ""),
   Cmd("/help", "")}

Callbacks ==
  {Cb("category", c) : c \in Categories} \cup {Cb("topic", t) : t \in Topics}
    \cup {Cb("confirm", a) : a \in {"send", "rewrite", "cancel"}}
    \cup {Cb("other", "")}

Messages(n) ==
  {Msg(x, <<>>, Null) : x \in Texts \cup {""}}
    \cup {Msg("", Photo(n), Null)}
    \cup {Msg("", Photo(n), g) : g \in GroupIds}

Events(n) == Commands \cup Callbacks \cup Messages(n)

------------------------------------------------------------

----------------------------------------------------------------------------
(* State *)

VARIABLES
  kv,            \* KV value of session:<user>, or NoSession
  trusted,       \* whether KV holds trusted:<user>
  now,           \* Date.now(), ms
  h,             \* the handler slots: pc and locals of each invocation
  received,      \* events received so far
  lastArrival,   \* arrival time of the latest event of the burst
  faultsLeft,    \* failures the environment may still inject
  out,           \* what the last step sent out: reply, admin call, prompt
  builds,        \* confirmation prompts built so far
  deliveries,    \* outbound calls delivered to the admin chat so far
  justSent,      \* the last finished invocation was a delivered confirm:send,
                 \* run to its end alone, and at most one confirm:send came since
  api,           \* one apiRequest call: attempt, responses, sleeps
  script,        \* the events a scripted run delivers, in order
  kvExpiry,      \* when the KV entry of the session expires (ms), 0 if none
  env,           \* the environment bindings of the deployment
  sender,        \* message.from.id and message.chat.id of the user
  http,          \* one HTTP request to the fetch handler and its response
  testLog        \* the KV entries test_log:<timestamp> of the audit log

vars == <<kv, trusted, now, h, received, lastArrival, faultsLeft, out, builds,
          deliveries, justSent, api, script, kvExpiry, env, sender, http,
          testLog>>

botVars == <<kv, trusted, now, h, received, lastArrival, faultsLeft, out,
             builds, deliveries, justSent, script, kvExpiry, env, sender,
             http, testLog>>

Idle == [pc |-> "idle", ev |-> NoEvent, snap |-> NoSession, upd |-> NoUpdates,
         site |-> "", wakeAt |-> 0, reply |-> ""]

ApiIdle == [pc |-> "idle", attempt |-> 0, script |-> <<>>, fetches |-> 0,
            sleeps |-> <<>>, result |-> ""]

NoCall == [method |-> "none"]

\* no HTTP request under way
HttpIdle == [pc |-> "idle", method |-> "", contentType |-> "", body |-> "",
             status |-> 0]

\* nothing sent out by a step
NoOut == [ev |-> NoEvent, reply |-> "", admin |-> NoCall, build |-> FALSE]

\* outcomes of one KV or outbound operation: it may fail while the
\* environment still has failures to inject
Outcomes == IF faultsLeft > 0 THEN {TRUE, FALSE} ELSE {TRUE}

Spend(ok) == IF ok THEN 0 ELSE 1

\* a getSession that takes a failed read for a fresh session
getSessionDefaults(ok) == IF ok THEN kv ELSE DefaultSession

\* getSession(userId, env): the stored session, null when there is none and
\* null when KV.get throws
getSession(ok) == IF ok THEN kv ELSE NoSession

\* the invocation ends with this reply to the user
Done(rec, reply) == [rec EXCEPT !.pc = "done", !.reply = reply]

\* the call of updateSession(userId, updates, env) at a call site
CallUpdate(rec, site, updates) ==
  [rec EXCEPT !.pc = "us_get", !.site = site, !.upd = updates,
              !.snap = NoSession]

\* slot i continues as rec; a finished invocation frees its slot (fetch
\* returns its Response) and its reply is what the step sent out
Continue(i, rec, admin, build) ==
  /\ h' = [h EXCEPT ![i] = IF rec.pc = "done" THEN Idle ELSE rec]
  /\ out' = [ev |-> IF rec.pc = "done" \/ admin # NoCall \/ build
                    THEN rec.ev ELSE NoEvent,
             reply |-> IF rec.pc = "done" THEN rec.reply ELSE "",
             admin |-> admin,
             build |-> build]
  /\ builds' = builds + (IF build THEN 1 ELSE 0)
  /\ deliveries' = deliveries + (IF admin # NoCall THEN 1 ELSE 0)
  /\ justSent' = IF rec.pc = "done"
                 THEN rec.reply = "sent" /\ \A j \in Slots \ {i} : h[j].pc = "idle"
                 ELSE justSent

----------------------------------------------------------------------------
(* Environment: arrival of webhook requests and the clock *)

Arrive(i, e) ==
  /\ h[i].pc = "idle"
  /\ \A j \in Slots : j < i => h[j].pc # "idle"
  /\ h' = [h EXCEPT ![i] = [Idle EXCEPT !.pc = "entry", !.ev = e]]
  /\ received' = received + 1
  /\ out' = NoOut
  /\ justSent' = (justSent /\ e = Cb("confirm", "send")
                            /\ \A j \in Slots : h[j].pc = "idle")
  /\ UNCHANGED <<kv, kvExpiry, trusted, now, faultsLeft, builds, deliveries,
                 api, script, env, sender, http, testLog>>

Receive(i) ==
  /\ received < MaxEvents
  /\ \E e \in Events(received + 1) : Arrive(i, e)
  /\ UNCHANGED lastArrival

\* the KV store drops a key when its expiration time has come
Expired(t) == kv # NoSession /\ t >= kvExpiry

KvAt(t) == IF Expired(t) THEN NoSession ELSE kv

\* an invocation that reads the clock is in flight
ClockRead(i) == h[i].pc # "idle" /\ h[i].ev.gid # Null

Sleeping(i) == h[i].pc = "sleeping" /\ h[i].wakeAt > now

\* time passes; it is observed only by media-group invocations, so it is
\* advanced only while one is in flight
Advance(ms) ==
  /\ now' = now + ms
  /\ kv' = KvAt(now')
  /\ kvExpiry' = IF Expired(now') THEN 0 ELSE kvExpiry
  /\ out' = NoOut
  /\ UNCHANGED <<trusted, h, received, lastArrival, faultsLeft, builds,
                 deliveries, justSent, api, script, env, sender, http,
                 testLog>>

Tick ==
  /\ \E i \in Slots : ClockRead(i)
  /\ now < MaxTime \/ \E i \in Slots : Sleeping(i)
  /\ Advance(TickMs)

----------------------------------------------------------------------------
(* routeCommand (src/src/index.js 960-1051) *)

\* a /start without token that opens a session for anyone
CommandRouteOpenStart(rec, ok, isTrusted) ==
  IF rec.ev.data = "/start" /\ rec.ev.arg # ""
  THEN IF rec.ev.arg # AccessToken THEN Done(rec, "neutral")
       ELSE IF ok THEN CallUpdate(rec, "start", [step |-> "category"])
       ELSE Done(rec, "error")
  ELSE IF rec.ev.data = "/start"
  THEN CallUpdate(rec, "start", [step |-> "category"])
  ELSE Done(rec, IF isTrusted THEN "unknown_command" ELSE "neutral")

\* an activation that accepts whatever token it is given
activateUserAnyToken(token, e, ok) ==
  [success |-> ok, message |-> IF ok THEN "activated" ELSE "error"]

\* activateUser (src/unnamed/part_002 167-216): a token other than
\* ACCESS_TOKEN is refused before any KV operation; ok is the outcome of the
\* put of trusted:<user>
activateUser(token, e, ok) ==
  IF token # getConfig(e).accessToken
  THEN [success |-> FALSE, message |-> "neutral"]
  ELSE IF ok THEN [success |-> TRUE, message |-> "activated"]
  ELSE [success |-> FALSE, message |-> "error"]

CommandRoute(rec, ok, isTrusted) ==
  IF rec.ev.data = "/start" /\ rec.ev.arg # ""
  THEN LET result == activateUser(rec.ev.arg, env, ok)
       IN IF result.success
          THEN CallUpdate(rec, "start", [step |-> "category"])
          ELSE Done(rec, result.message)
  ELSE IF rec.ev.data = "/start"
  THEN IF isTrusted THEN CallUpdate(rec, "start", [step |-> "category"])
       ELSE Done(rec, "neutral")
  ELSE Done(rec, IF isTrusted THEN "unknown_command" ELSE "neutral")

RouteCommand(i) ==
  LET rec == h[i]
      activation == rec.ev.data = "/start" /\ rec.ev.arg # ""
  IN /\ rec.pc = "entry"
     /\ rec.ev.type = "cmd"
     /\ \E ok \in Outcomes :
          \* a wrong token is refused before any KV operation
          /\ (activation /\ rec.ev.arg # AccessToken) => ok
          /\ faultsLeft' = faultsLeft - Spend(ok)
          /\ trusted' = (trusted \/ (activation
                                       /\ activateUser(rec.ev.arg, env,
                                                       ok).success))
          /\ Continue(i, CommandRoute(rec, ok, ok /\ trusted), NoCall, FALSE)
     /\ UNCHANGED <<kv, kvExpiry, now, received, lastArrival, api, script,
                    env, sender, http, testLog>>

----------------------------------------------------------------------------
(* routeCallbackQuery (src/src/index.js 1059-1243) *)

ContentCleared ==
  [messageText |-> Null, mediaItems |-> <<>>, mediaGroupId |-> Null,
   waitingForMediaGroup |-> FALSE, sentiment |-> Null]

\* a rewrite that also forgets the topic
RewriteUpdatesNoTopic ==
  MergeUpdates([step |-> "message", topic |-> Null], ContentCleared)

\* the updates of confirm:rewrite (1159-1166)
RewriteUpdates == MergeUpdates([step |-> "message"], ContentCleared)

\* a cancel that forgets to clear the topic
CancelUpdatesPartial ==
  MergeUpdates([step |-> "category", category |-> Null], ContentCleared)

\* the updates of confirm:cancel (1176-1185)
CancelUpdates ==
  MergeUpdates([step |-> "category", category |-> Null, topic |-> Null],
               ContentCleared)

\* a callback router that never looks whether the session exists
CallbackRouteNoSessionCheck(rec, isTrusted, session) ==
  LET data == rec.ev.data
      arg == rec.ev.arg
  IN IF ~isTrusted THEN Done(rec, "denied")
     ELSE IF data = "category"
     THEN CallUpdate(rec, "category", [category |-> arg, step |-> "topic"])
     ELSE IF data = "topic"
     THEN CallUpdate(rec, "topic", [topic |-> arg, step |-> "message"])
     ELSE IF data = "confirm" /\ arg = "rewrite"
     THEN CallUpdate(rec, "rewrite",
                     MergeUpdates([step |-> "message"], ContentCleared))
     ELSE IF data = "confirm" /\ arg = "cancel"
     THEN CallUpdate(rec, "cancel", CancelUpdates)
     ELSE IF data = "confirm" /\ arg = "send"
     THEN [rec EXCEPT !.pc = "send_fresh"]
     ELSE Done(rec, "unknown_action")

CallbackRoute(rec, isTrusted, session) ==
  LET data == rec.ev.data
      arg == rec.ev.arg
  IN IF ~isTrusted THEN Done(rec, "denied")
     ELSE IF session = NoSession THEN Done(rec, "expired")
     ELSE IF data = "category"
     THEN CallUpdate(rec, "category", [category |-> arg, step |-> "topic"])
     ELSE IF data = "topic"
     THEN CallUpdate(rec, "topic", [topic |-> arg, step |-> "message"])
     ELSE IF data = "confirm" /\ arg = "rewrite"
     THEN CallUpdate(rec, "rewrite", RewriteUpdates)
     ELSE IF data = "confirm" /\ arg = "cancel"
     THEN CallUpdate(rec, "cancel", CancelUpdates)
     ELSE IF data = "confirm" /\ arg = "send"
     THEN [rec EXCEPT !.pc = "send_fresh"]
     ELSE Done(rec, "unknown_action")

\* isTrustedUser and getSession: two KV reads of different keys, taken as one
\* step (no step of another invocation writes both keys, so every
\* interleaving between the two reads is equivalent to one before or after)
RouteCallbackQuery(i) ==
  LET rec == h[i]
  IN /\ rec.pc = "entry"
     /\ rec.ev.type = "cb"
     /\ \E okT \in Outcomes, okS \in Outcomes :
          /\ Spend(okT) + Spend(okS) <= faultsLeft
          /\ ~(okT /\ trusted) => okS
          /\ faultsLeft' = faultsLeft - Spend(okT) - Spend(okS)
          /\ Continue(i, CallbackRoute(rec, okT /\ trusted,
                                       getSession(okS)),
                      NoCall, FALSE)
     /\ UNCHANGED <<kv, kvExpiry, trusted, now, received, lastArrival, api,
                    script, env, sender, http, testLog>>

----------------------------------------------------------------------------
(* handleMessage (src/src/index.js 1251-1409) *)

\* a handler that appends to whatever attachments are stored
GroupUpdatesAppendAlways(ev, session, t) ==
  [messageText |-> IF HasText(session.messageText)
                   THEN session.messageText ELSE ev.text,
   mediaItems |-> session.mediaItems \o ev.media,
   mediaGroupId |-> ev.gid,
   step |-> "message",
   lastMediaTimestamp |-> t]

\* a handler that lets the caption of each event replace the stored text
GroupUpdatesLastCaption(ev, session, t) ==
  LET same == session.mediaGroupId = ev.gid
  IN [messageText |-> IF same /\ ~HasText(ev.text)
                      THEN session.messageText ELSE ev.text,
      mediaItems |-> IF same THEN session.mediaItems \o ev.media ELSE ev.media,
      mediaGroupId |-> ev.gid,
      step |-> "message",
      lastMediaTimestamp |-> t]

\* the updates a media-group event stores (1305-1328)
GroupUpdates(ev, session, t) ==
  LET same == session.mediaGroupId = ev.gid
  IN [messageText |-> IF same /\ HasText(session.messageText)
                      THEN session.messageText ELSE ev.text,
      mediaItems |-> IF same THEN session.mediaItems \o ev.media ELSE ev.media,
      mediaGroupId |-> ev.gid,
      step |-> "message",
      lastMediaTimestamp |-> t]

\* a handler that records a message without text and attachment
MessageRouteNoEmptyCheck(rec, isTrusted, session, t) ==
  LET ev == rec.ev
  IN IF ~isTrusted THEN Done(rec, "neutral")
     ELSE IF session = NoSession THEN Done(rec, "expired")
     ELSE IF ev.gid # Null
     THEN CallUpdate(rec, "group", GroupUpdates(ev, session, t))
     ELSE IF session.step # "message" THEN Done(rec, "follow_instructions")
     ELSE CallUpdate(rec, "single",
                     [messageText |-> ev.text, mediaItems |-> ev.media,
                      mediaGroupId |-> Null, waitingForMediaGroup |-> FALSE])

\* a handler that checks the step before it looks at media_group_id
MessageRouteStepFirst(rec, isTrusted, session, t) ==
  LET ev == rec.ev
  IN IF ~isTrusted THEN Done(rec, "neutral")
     ELSE IF session = NoSession THEN Done(rec, "expired")
     ELSE IF session.step # "message" THEN Done(rec, "follow_instructions")
     ELSE IF ev.gid # Null
     THEN CallUpdate(rec, "group", GroupUpdates(ev, session, t))
     ELSE IF ~HasText(ev.text) /\ Len(ev.media) = 0
     THEN Done(rec, "send_text_or_media")
     ELSE CallUpdate(rec, "single",
                     [messageText |-> ev.text, mediaItems |-> ev.media,
                      mediaGroupId |-> Null, waitingForMediaGroup |-> FALSE])

MessageRoute(rec, isTrusted, session, t) ==
  LET ev == rec.ev
  IN IF ~isTrusted THEN Done(rec, "neutral")
     ELSE IF session = NoSession THEN Done(rec, "expired")
     ELSE IF ev.gid # Null
     THEN CallUpdate(rec, "group", GroupUpdates(ev, session, t))
     ELSE IF session.step # "message" THEN Done(rec, "follow_instructions")
     ELSE IF ~HasText(ev.text) /\ Len(ev.media) = 0
     THEN Done(rec, "send_text_or_media")
     ELSE CallUpdate(rec, "single",
                     [messageText |-> ev.text, mediaItems |-> ev.media,
                      mediaGroupId |-> Null, waitingForMediaGroup |-> FALSE])

HandleMessage(i) ==
  LET rec == h[i]
  IN /\ rec.pc = "entry"
     /\ rec.ev.type = "msg"
     /\ \E okT \in Outcomes, okS \in Outcomes :
          /\ Spend(okT) + Spend(okS) <= faultsLeft
          /\ ~(okT /\ trusted) => okS
          /\ faultsLeft' = faultsLeft - Spend(okT) - Spend(okS)
          /\ Continue(i, MessageRoute(rec, okT /\ trusted,
                                      getSession(okS), now),
                      NoCall, FALSE)
     /\ UNCHANGED <<kv, kvExpiry, trusted, now, received, lastArrival, api,
                    script, env, sender, http, testLog>>

\* after the 1000 ms wait: const latestSession = await getSession(...)
Wake(i) ==
  LET rec == h[i]
  IN /\ rec.pc = "sleeping"
     /\ now >= rec.wakeAt
     /\ \E ok \in Outcomes :
          /\ faultsLeft' = faultsLeft - Spend(ok)
          /\ Continue(i, [rec EXCEPT !.pc = "check",
                                     !.snap = getSession(ok)],
                      NoCall, FALSE)
     /\ UNCHANGED <<kv, kvExpiry, trusted, now, received, lastArrival, api,
                    script, env, sender, http, testLog>>

\* a check that asks for more than the quiet window to have passed
BurstClosedStrict(latest, gid, t) ==
  /\ latest # NoSession
  /\ latest.mediaGroupId = gid
  /\ "lastMediaTimestamp" \in DOMAIN latest
  /\ t - latest.lastMediaTimestamp > QuietWindowMs

\* the condition of lines 1342-1344, Date.now() being t
BurstClosed(latest, gid, t) ==
  /\ latest # NoSession
  /\ latest.mediaGroupId = gid
  /\ "lastMediaTimestamp" \in DOMAIN latest
  /\ t - latest.lastMediaTimestamp >= QuietWindowMs

\* the confirmation prompt is sent, then updateSession({step: 'confirm'})
BuildConfirmation(rec) == CallUpdate(rec, "confirm", [step |-> "confirm"])

CheckBurst(i) ==
  LET rec == h[i]
      closed == BurstClosed(rec.snap, rec.ev.gid, now)
  IN /\ rec.pc = "check"
     /\ Continue(i, IF closed THEN BuildConfirmation(rec)
                    ELSE Done(rec, "skipped"),
                 NoCall, closed)
     /\ UNCHANGED <<kv, kvExpiry, trusted, now, received, lastArrival,
                    faultsLeft, api, script, env, sender, http, testLog>>

----------------------------------------------------------------------------
(* updateSession (src/src/session.js 61-109) and what follows each call *)

\* let session = await getSession(userId, env): null also on a KV error
UpdateGet(i) ==
  LET rec == h[i]
  IN /\ rec.pc = "us_get"
     /\ \E ok \in Outcomes :
          /\ faultsLeft' = faultsLeft - Spend(ok)
          /\ Continue(i, [rec EXCEPT !.pc = "us_put",
                                     !.snap = getSession(ok)],
                      NoCall, FALSE)
     /\ UNCHANGED <<kv, kvExpiry, trusted, now, received, lastArrival, api,
                    script, env, sender, http, testLog>>

\* the rest of the invocation once updateSession has returned
AfterUpdate(rec, t) ==
  CASE rec.site = "start" -> Done(rec, "welcome")
    [] rec.site = "category" -> Done(rec, "topic_prompt")
    [] rec.site = "topic" -> Done(rec, "message_prompt")
    [] rec.site = "rewrite" -> Done(rec, "rewrite_prompt")
    [] rec.site = "cancel" -> CallUpdate(rec, "cancel_flow", NoUpdates)
    [] rec.site = "cancel_flow" -> Done(rec, "category_prompt")
    [] rec.site = "group" ->
         [rec EXCEPT !.pc = "sleeping", !.wakeAt = t + QuietWindowMs,
                     !.snap = NoSession, !.upd = NoUpdates]
    [] rec.site = "single" -> BuildConfirmation(rec)
    [] OTHER -> Done(rec, "confirm_prompt")

\* updateSession threw 'Failed to store session in KV'
AfterUpdateFailed(rec) ==
  IF rec.site = "confirm" THEN Done(rec, "confirm_prompt")
  ELSE Done(rec, "error")

UpdatePut(i) ==
  LET rec == h[i]
  IN /\ rec.pc = "us_put"
     /\ \E ok \in Outcomes :
          /\ faultsLeft' = faultsLeft - Spend(ok)
          /\ kv' = IF ok THEN UpdatedSession(rec.snap, rec.upd, now) ELSE kv
          /\ kvExpiry' = IF ok THEN PutExpiry(now) ELSE kvExpiry
          /\ Continue(i, IF ok THEN AfterUpdate(rec, now)
                         ELSE AfterUpdateFailed(rec),
                      NoCall, ok /\ rec.site = "single")
     /\ UNCHANGED <<trusted, now, received, lastArrival, api, script, env,
                    sender, http, testLog>>

----------------------------------------------------------------------------
(* confirm:send and forwardMessageToAdmin (src/src/index.js 1205-1225,     *)
(* 1500-1621)                                                              *)

\* const freshSession = await getSession(userId, env)
SendFresh(i) ==
  LET rec == h[i]
  IN /\ rec.pc = "send_fresh"
     /\ \E ok \in Outcomes :
          /\ faultsLeft' = faultsLeft - Spend(ok)
          /\ Continue(i, IF getSession(ok) # NoSession
                         THEN [rec EXCEPT !.pc = "admin_send",
                                          !.snap = getSession(ok)]
                         ELSE Done(rec, "expired"),
                      NoCall, FALSE)
     /\ UNCHANGED <<kv, kvExpiry, trusted, now, received, lastArrival, api,
                    script, env, sender, http, testLog>>

\* a send that failed ends the invocation in the catch block; one that
\* succeeded goes on to clearSession
AfterSendBroken(rec, ok) ==
  [rec EXCEPT !.pc = "clear", !.snap = NoSession]

\* a deployment that writes the audit entry whatever TEST_MODE says
AfterSendLogAlways(rec, ok) ==
  IF ok THEN [rec EXCEPT !.pc = "log"]
  ELSE Done(rec, "send_error")

\* if (!sendResult.success) throw ...; if (config.testMode) { the audit
\* entry }; await clearSession(userId, env);
\* catch: the user is told that sending failed
AfterSend(rec, ok) ==
  IF ~ok THEN Done(rec, "send_error")
  ELSE IF getConfig(env).testMode THEN [rec EXCEPT !.pc = "log"]
  ELSE [rec EXCEPT !.pc = "clear", !.snap = NoSession]

\* the outbound call to the admin chat: sendResult.success or not
AdminSend(i) ==
  LET rec == h[i]
  IN /\ rec.pc = "admin_send"
     /\ \E ok \in Outcomes :
          \* an attachment of another type makes no call: sendResult stays
          \* undefined and reading sendResult.success throws
          LET sent == ok /\ AdminCall(rec.snap).method # "none"
          IN /\ faultsLeft' = faultsLeft - Spend(ok)
             /\ Continue(i, AfterSend(rec, sent),
                         IF sent
                         THEN forwardMessageToAdmin(sender.userId,
                                                    sender.chatId, rec.snap, env)
                         ELSE NoCall,
                         FALSE)
     /\ UNCHANGED <<kv, kvExpiry, trusted, now, received, lastArrival, api,
                    script, env, sender, http, testLog>>

\* expirationTtl of an audit entry: 30 days in seconds
TEST_LOG_TTL == 2592000

\* logKey, logData and the options of the put (src/src/index.js 1571-1588)
TestLogEntry(userId, session, e, t) ==
  [key |-> t, expirationTtl |-> TEST_LOG_TTL,
   data |-> [timestamp |-> t, userId |-> userId,
             category |-> session.category, topic |-> session.topic,
             messageText |-> session.messageText,
             mediaItems |-> session.mediaItems,
             sentiment |-> session.sentiment,
             adminChatId |-> AdminChatId(getConfig(e))]]

\* the audit entry of TEST_MODE: env.KV.put in a try block whose catch only
\* logs (src/src/index.js 1569-1595); clearSession follows either way
WriteTestLog(i) ==
  LET rec == h[i]
  IN /\ rec.pc = "log"
     /\ \E ok \in Outcomes :
          /\ faultsLeft' = faultsLeft - Spend(ok)
          /\ testLog' = IF ok
                        THEN testLog \cup
                               {TestLogEntry(sender.userId, rec.snap, env, now)}
                        ELSE testLog
          /\ Continue(i, [rec EXCEPT !.pc = "clear", !.snap = NoSession],
                      NoCall, FALSE)
     /\ UNCHANGED <<kv, kvExpiry, trusted, now, received, lastArrival, api,
                    script, env, sender, http>>

\* clearSession (src/src/session.js 117-130): a KV delete error is swallowed
ClearSession(i) ==
  LET rec == h[i]
  IN /\ rec.pc = "clear"
     /\ \E ok \in Outcomes :
          /\ faultsLeft' = faultsLeft - Spend(ok)
          /\ kv' = IF ok THEN NoSession ELSE kv
          /\ kvExpiry' = IF ok THEN 0 ELSE kvExpiry
          /\ Continue(i, Done(rec, "sent"), NoCall, FALSE)
     /\ UNCHANGED <<trusted, now, received, lastArrival, api, script, env,
                    sender, http, testLog>>

----------------------------------------------------------------------------
(* The bot under arbitrary events *)

\* sessions the normal flow stores: after /start, after a category, after a
\* topic, and awaiting confirmation of a text or of a photo
AtTopic(c) == [DefaultSession EXCEPT !.step = "topic", !.category = c]

AtMessage(c, t) == [AtTopic(c) EXCEPT !.step = "message", !.topic = t]

AtConfirm(c, t, x, items) ==
  [AtMessage(c, t) EXCEPT !.step = "confirm", !.messageText = x,
                          !.mediaItems = items]

FlowSessions ==
  {DefaultSession, AtTopic("idea"), AtMessage("idea", "salary"),
   AtConfirm("idea", "salary", "great job", <<>>),
   AtConfirm("idea", "salary", "", Photo(0))}

\* the store as a deployment may hold it when a run starts: an unknown user,
\* or an activated one with no session or a session of the flow
Init ==
  /\ trusted \in BOOLEAN
  /\ kv \in (IF trusted THEN {NoSession} \cup FlowSessions ELSE {NoSession})
  /\ now = 0
  /\ kvExpiry = (IF kv = NoSession THEN 0 ELSE PutExpiry(0))
  /\ env = ProdEnv
  /\ sender = Sender("user-1")
  /\ http = HttpIdle
  /\ testLog = {}
  /\ h = [i \in Slots |-> Idle]
  /\ received = 0
  /\ lastArrival = 0
  /\ faultsLeft = MaxFaults
  /\ out = NoOut
  /\ builds = 0
  /\ deliveries = 0
  /\ justSent = FALSE
  /\ api = ApiIdle
  /\ script = <<>>

Step(i) ==
  \/ RouteCommand(i)
  \/ RouteCallbackQuery(i)
  \/ HandleMessage(i)
  \/ Wake(i)
  \/ CheckBurst(i)
  \/ UpdateGet(i)
  \/ UpdatePut(i)
  \/ SendFresh(i)
  \/ AdminSend(i)
  \/ ClearSession(i)

Next ==
  \/ \E i \in Slots : Receive(i)
  \/ \E i \in Slots : Step(i)
  \/ Tick

Spec == Init /\ [][Next]_vars

----------------------------------------------------------------------------
(* Scripted runs: the events of a script handled one after another *)

\* category, topic, a text, confirm:send, and confirm:send once more
FlowScript(c, t, x) ==
  <<Cb("category", c), Cb("topic", t), Msg(x, <<>>, Null),
    Cb("confirm", "send"), Cb("confirm", "send")>>

Scripts == {FlowScript(c, t, x) : c \in Categories, t \in Topics, x \in Texts}

Quiescent == \A i \in Slots : h[i].pc = "idle"

ReceiveScript(i) ==
  /\ received < Len(script)
  /\ Quiescent
  /\ Arrive(i, script[received + 1])
  /\ UNCHANGED lastArrival

\* a trusted user with the fresh session /start stores
InitSeq ==
  /\ trusted = TRUE
  /\ kv = DefaultSession
  /\ now = 0
  /\ kvExpiry = (IF kv = NoSession THEN 0 ELSE PutExpiry(0))
  /\ env = ProdEnv
  /\ sender = Sender("user-1")
  /\ http = HttpIdle
  /\ testLog = {}
  /\ h = [i \in Slots |-> Idle]
  /\ received = 0
  /\ lastArrival = 0
  /\ faultsLeft = MaxFaults
  /\ out = NoOut
  /\ builds = 0
  /\ deliveries = 0
  /\ justSent = FALSE
  /\ api = ApiIdle
  /\ script \in Scripts

NextSeq ==
  \/ \E i \in Slots : ReceiveScript(i)
  \/ \E i \in Slots : RouteCallbackQuery(i)
  \/ \E i \in Slots : HandleMessage(i)
  \/ \E i \in Slots : UpdateGet(i)
  \/ \E i \in Slots : UpdatePut(i)
  \/ \E i \in Slots : SendFresh(i)
  \/ \E i \in Slots : AdminSend(i)
  \/ \E i \in Slots : ClearSession(i)

SpecSeq == InitSeq /\ [][NextSeq]_vars

----------------------------------------------------------------------------
(* One media burst: events of one media_group_id, each arriving less than  *)
(* the quiet window after the previous one; no failures                    *)

BurstEvent(n) == Msg("", Photo(n), "g1")

\* the attachments of the first n events of the burst, in arrival order
Arrived(n) == [k \in 1..n |-> Photo(k)[1]]

ReceiveBurst(i) ==
  /\ received < MaxBurst
  /\ received = 0 \/ now - lastArrival < QuietWindowMs
  /\ Arrive(i, BurstEvent(received + 1))
  /\ lastArrival' = now

\* a trusted user who has chosen category and topic
InitBurst ==
  /\ trusted = TRUE
  /\ kv = AtMessage("idea", "salary")
  /\ now = 0
  /\ kvExpiry = (IF kv = NoSession THEN 0 ELSE PutExpiry(0))
  /\ env = ProdEnv
  /\ sender = Sender("user-1")
  /\ http = HttpIdle
  /\ testLog = {}
  /\ h = [i \in Slots |-> Idle]
  /\ received = 0
  /\ lastArrival = 0
  /\ faultsLeft = 0
  /\ out = NoOut
  /\ builds = 0
  /\ deliveries = 0
  /\ justSent = FALSE
  /\ api = ApiIdle
  /\ script = <<>>

StepBurst(i) ==
  \/ HandleMessage(i)
  \/ UpdateGet(i)
  \/ UpdatePut(i)
  \/ Wake(i)
  \/ CheckBurst(i)

NextBurst ==
  \/ \E i \in Slots : ReceiveBurst(i)
  \/ \E i \in Slots : StepBurst(i)
  \/ Tick

SpecBurst == InitBurst /\ [][NextBurst]_vars

\* the runtime resumes every invocation whose await has settled, and time passes
SpecBurstFair ==
  /\ InitBurst
  /\ [][NextBurst]_vars
  /\ \A i \in Slots : WF_vars(StepBurst(i))
  /\ WF_vars(Tick)

----------------------------------------------------------------------------
(* apiRequest (src/src/telegram.js 28-90): one call, the responses of the  *)
(* Telegram API to its fetches drawn beforehand                            *)

RetryAfterSec == 5    \* parameters.retry_after of a rate-limited response

Responses ==
  {"ok", "network_error", "http_5xx", "http_4xx", "http_429_retry_after",
   "http_429", "bad_json"}

Transient == {"network_error", "http_5xx"}

RECURSIVE SeqsOf(_, _)
SeqsOf(S, n) ==
  IF n = 0 THEN {<<>>}
  ELSE {Append(q, r) : q \in SeqsOf(S, n - 1), r \in S}

\* a delay that does not grow with the attempt
BackoffDelayFlat(attempt) == BackoffBaseMs

\* const delay = Math.pow(2, attempt) * 1000
BackoffDelay(attempt) == (2 ^ attempt) * BackoffBaseMs

\* a loop that goes on as long as responses ask for another attempt
LoopHeadUnbounded(a, attempt) ==
  [a EXCEPT !.pc = "fetch", !.attempt = attempt]

\* the loop header after attempt++: another iteration, or the throw after it
LoopHead(a, attempt) ==
  IF attempt < ApiRetries THEN [a EXCEPT !.pc = "fetch", !.attempt = attempt]
  ELSE [a EXCEPT !.pc = "thrown", !.attempt = attempt,
                 !.result = "All retry attempts exhausted"]

\* one iteration of the for loop up to its return, throw or sleep
Attempt(a, r) ==
  LET b == [a EXCEPT !.fetches = a.fetches + 1]
  IN IF r = "ok" THEN [b EXCEPT !.pc = "returned", !.result = "data"]
     ELSE IF r = "http_429_retry_after"
     THEN [b EXCEPT !.pc = "rate_wait",
                    !.sleeps = Append(a.sleeps, RetryAfterSec * 1000)]
     ELSE IF a.attempt = ApiRetries - 1
     THEN [b EXCEPT !.pc = "thrown", !.result = r]
     ELSE [b EXCEPT !.pc = "backoff",
                    !.sleeps = Append(a.sleeps, BackoffDelay(a.attempt))]

ApiFetch ==
  /\ api.pc = "fetch"
  /\ api.fetches < Len(api.script)
  /\ api' = Attempt(api, api.script[api.fetches + 1])
  /\ UNCHANGED botVars

\* the sleep is over: continue (429 with retry_after) or the end of the catch
\* block; either way the for loop runs attempt++
ApiResume ==
  /\ api.pc \in {"rate_wait", "backoff"}
  /\ api' = LoopHead(api, api.attempt + 1)
  /\ UNCHANGED botVars

InitApi ==
  /\ trusted = FALSE
  /\ kv = NoSession
  /\ now = 0
  /\ kvExpiry = (IF kv = NoSession THEN 0 ELSE PutExpiry(0))
  /\ env = ProdEnv
  /\ sender = Sender("user-1")
  /\ http = HttpIdle
  /\ testLog = {}
  /\ h = [i \in Slots |-> Idle]
  /\ received = 0
  /\ lastArrival = 0
  /\ faultsLeft = 0
  /\ out = NoOut
  /\ builds = 0
  /\ deliveries = 0
  /\ justSent = FALSE
  /\ script = <<>>
  /\ \E q \in SeqsOf(Responses, MaxResponses) :
       api = [ApiIdle EXCEPT !.pc = "fetch", !.script = q]

NextApi == ApiFetch \/ ApiResume

SpecApi == InitApi /\ [][NextApi]_vars

\* the runtime goes on with the call: a response comes to every fetch and
\* every sleep ends
SpecApiFair == SpecApi /\ WF_vars(NextApi)

----------------------------------------------------------------------------
(* Media-group events that arrive one by one, each after the quiet window *)
(* of the previous one has elapsed and its check has closed the burst     *)

ReceiveLate(i) ==
  /\ received < MaxBurst
  /\ Quiescent
  /\ received = 0
       \/ (now - lastArrival >= QuietWindowMs /\ kv # NoSession
             /\ kv.step = "confirm")
  /\ Arrive(i, BurstEvent(received + 1))
  /\ lastArrival' = now

\* a trusted user who has chosen category and topic; KV operations may fail
InitLate ==
  /\ trusted = TRUE
  /\ kv = AtMessage("idea", "salary")
  /\ now = 0
  /\ kvExpiry = (IF kv = NoSession THEN 0 ELSE PutExpiry(0))
  /\ env = ProdEnv
  /\ sender = Sender("user-1")
  /\ http = HttpIdle
  /\ testLog = {}
  /\ h = [i \in Slots |-> Idle]
  /\ received = 0
  /\ lastArrival = 0
  /\ faultsLeft = MaxFaults
  /\ out = NoOut
  /\ builds = 0
  /\ deliveries = 0
  /\ justSent = FALSE
  /\ api = ApiIdle
  /\ script = <<>>

NextLate ==
  \/ \E i \in Slots : ReceiveLate(i)
  \/ \E i \in Slots : StepBurst(i)
  \/ Tick

SpecLate == InitLate /\ [][NextLate]_vars

----------------------------------------------------------------------------
(* Idle time: events handled one after another, with long pauses between  *)
(* them, so that the TTL of the session entry can run out                  *)

TtlEvents ==
  {Cb("category", "idea"), Cb("topic", "salary"), Msg("great job", <<>>, Null)}

ReceiveTtl(i) ==
  /\ received < MaxEvents
  /\ Quiescent
  /\ \E e \in TtlEvents : Arrive(i, e)
  /\ UNCHANGED lastArrival

\* time passes while no invocation is in flight
PassTime ==
  /\ Quiescent
  /\ now + IdleTickSec * 1000 <= MaxIdleSec * 1000
  /\ Advance(IdleTickSec * 1000)

\* a trusted user whose session was written at time 0; no failures
InitTtl ==
  /\ trusted = TRUE
  /\ kv \in FlowSessions
  /\ now = 0
  /\ kvExpiry = PutExpiry(0)
  /\ env = ProdEnv
  /\ sender = Sender("user-1")
  /\ http = HttpIdle
  /\ testLog = {}
  /\ h = [i \in Slots |-> Idle]
  /\ received = 0
  /\ lastArrival = 0
  /\ faultsLeft = 0
  /\ out = NoOut
  /\ builds = 0
  /\ deliveries = 0
  /\ justSent = FALSE
  /\ api = ApiIdle
  /\ script = <<>>

NextTtl ==
  \/ \E i \in Slots : ReceiveTtl(i)
  \/ \E i \in Slots : RouteCallbackQuery(i)
  \/ \E i \in Slots : HandleMessage(i)
  \/ \E i \in Slots : UpdateGet(i)
  \/ \E i \in Slots : UpdatePut(i)
  \/ PassTime

SpecTtl == InitTtl /\ [][NextTtl]_vars

----------------------------------------------------------------------------
(* The HTTP endpoint: fetch(request, env) (src/src/index.js 826-881)      *)

Methods == {"POST", "GET", "PUT"}

\* the content-type header; "" when the request has none
ContentTypes ==
  {"application/json", "application/json; charset=utf-8", "text/plain", ""}

\* contentType.includes('application/json')
JsonTypes == {"application/json", "application/json; charset=utf-8"}

\* what request.json() meets: an update, JSON that is no update object, or
\* a body that does not parse
Bodies == {"update", "not_object", "unparsable"}

\* deployments with any of the required bindings missing
FetchEnvs ==
  {[ProdEnv EXCEPT !.TELEGRAM_TOKEN = a, !.ADMIN_CHAT_ID = b,
                   !.ACCESS_TOKEN = c] :
     a \in {"", "bot-token"}, b \in {"", "admin-chat"},
     c \in {"", AccessToken}}

\* the status of the Response; handlerFails: the handling of the event threw
fetch(request, e, handlerFails) ==
  IF request.method # "POST" THEN 405
  ELSE IF request.contentType \notin JsonTypes THEN 200
  ELSE IF ~validateEnv(e).valid THEN 500
  ELSE IF request.body = "unparsable" THEN 200
  \* handleWebhook catches what its handlers throw, and so does fetch
  ELSE 200

FetchRespond ==
  /\ http.pc = "received"
  /\ \E handlerFails \in BOOLEAN :
       http' = [http EXCEPT !.pc = "responded",
                            !.status = fetch(http, env, handlerFails)]
  /\ UNCHANGED <<kv, kvExpiry, trusted, now, h, received, lastArrival,
                 faultsLeft, out, builds, deliveries, justSent, api, script,
                 env, sender, testLog>>

InitFetch ==
  /\ trusted = FALSE
  /\ kv = NoSession
  /\ now = 0
  /\ kvExpiry = 0
  /\ env \in FetchEnvs
  /\ testLog = {}
  /\ sender = Sender("user-1")
  /\ \E m \in Methods, c \in ContentTypes, b \in Bodies :
       http = [HttpIdle EXCEPT !.pc = "received", !.method = m,
                               !.contentType = c, !.body = b]
  /\ h = [i \in Slots |-> Idle]
  /\ received = 0
  /\ lastArrival = 0
  /\ faultsLeft = 0
  /\ out = NoOut
  /\ builds = 0
  /\ deliveries = 0
  /\ justSent = FALSE
  /\ api = ApiIdle
  /\ script = <<>>

NextFetch == FetchRespond

SpecFetch == InitFetch /\ [][NextFetch]_vars

----------------------------------------------------------------------------
(* Deliveries: content and confirm:send handled one after the other, for   *)
(* every accepted deployment, both senders and every kind of content; no   *)
(* failures                                                                *)

Item(type, n) == [type |-> type, fileId |-> n]

\* the attachments a session may hold: none, one of each type, or those of a
\* media group
DeliverItems ==
  {<<>>, <<Item("photo", 1)>>, <<Item("video", 1)>>, <<Item("document", 1)>>,
   <<Item("photo", 1), Item("video", 2)>>,
   <<Item("video", 1), Item("document", 2), Item("photo", 3)>>}

DeliverTexts == {"great job", "this is awful"}

\* sessions awaiting content or confirmation; several attachments are
\* those of one media group
DeliverSessions ==
  {AtMessage("idea", "salary")}
    \cup {MergeUpdates(AtConfirm("problem", "other", x, items),
                       IF Len(items) > 1
                       THEN [mediaGroupId |-> "g1", lastMediaTimestamp |-> 0]
                       ELSE NoUpdates) :
            x \in {"great job", ""}, items \in DeliverItems}

\* confirm:send at once, or after a text or a single attachment
DeliverScripts ==
  {<<Cb("confirm", "send")>>}
    \cup {<<Msg(x, <<>>, Null), Cb("confirm", "send")>> : x \in DeliverTexts}
    \cup {<<Msg(x, <<Item(ty, 4)>>, Null), Cb("confirm", "send")>> :
            x \in {"", "great job"}, ty \in {"photo", "video", "document"}}

InitDeliver ==
  /\ trusted = TRUE
  /\ kv \in DeliverSessions
  /\ now = 0
  /\ kvExpiry = PutExpiry(0)
  /\ env \in ValidEnvs
  /\ sender \in Senders
  /\ http = HttpIdle
  /\ testLog = {}
  /\ h = [i \in Slots |-> Idle]
  /\ received = 0
  /\ lastArrival = 0
  /\ faultsLeft = 0
  /\ out = NoOut
  /\ builds = 0
  /\ deliveries = 0
  /\ justSent = FALSE
  /\ api = ApiIdle
  /\ script \in DeliverScripts

\* the scripted run of a deployment that may have TEST_MODE set
NextDeliver == NextSeq \/ \E i \in Slots : WriteTestLog(i)

SpecDeliver == InitDeliver /\ [][NextDeliver]_vars

----------------------------------------------------------------------------
(* The same deliveries while a KV or an outbound call may fail *)

InitAudit ==
  /\ trusted = TRUE
  /\ kv \in DeliverSessions
  /\ now = 0
  /\ kvExpiry = PutExpiry(0)
  /\ env \in ValidEnvs
  /\ sender \in Senders
  /\ http = HttpIdle
  /\ testLog = {}
  /\ h = [i \in Slots |-> Idle]
  /\ received = 0
  /\ lastArrival = 0
  /\ faultsLeft = MaxFaults
  /\ out = NoOut
  /\ builds = 0
  /\ deliveries = 0
  /\ justSent = FALSE
  /\ api = ApiIdle
  /\ script \in DeliverScripts

SpecAudit == InitAudit /\ [][NextDeliver]_vars

----------------------------------------------------------------------------
(* Attachments with captions, alone or in media groups *)

\* the caption of the n-th event, when it has one
Caption(n) == <<"first", "second", "third", "fourth">>[n]

\* the n-th event: a photo, alone or of a group, with a caption or (when
\* bare is allowed) without
GroupEvents(n, bare) ==
  {Msg(c, Photo(n), g) : c \in {Caption(n)} \cup (IF bare THEN {""} ELSE {}),
                         g \in {Null} \cup GroupIds}

GroupScripts(bare) ==
  {q \in [1..MaxBurst -> UNION {GroupEvents(n, bare) : n \in 1..MaxBurst}] :
     \A n \in 1..MaxBurst : q[n] \in GroupEvents(n, bare)}

\* a trusted user who has chosen category and topic, or who is asked to
\* confirm a text, and the events to come
InitContent(scripts) ==
  /\ trusted = TRUE
  /\ kv \in {AtMessage("idea", "salary"),
             AtConfirm("idea", "salary", "great job", <<>>)}
  /\ now = 0
  /\ kvExpiry = PutExpiry(0)
  /\ env = ProdEnv
  /\ sender = Sender("user-1")
  /\ http = HttpIdle
  /\ testLog = {}
  /\ h = [i \in Slots |-> Idle]
  /\ received = 0
  /\ lastArrival = 0
  /\ faultsLeft = 0
  /\ out = NoOut
  /\ builds = 0
  /\ deliveries = 0
  /\ justSent = FALSE
  /\ api = ApiIdle
  /\ script \in scripts

\* every event carries a caption
InitGroups == InitContent(GroupScripts(FALSE))

\* events with and without caption
InitCaptions == InitContent(GroupScripts(TRUE))

\* the next event arrives whatever the invocations in flight are doing
ReceiveAny(i) ==
  /\ received < Len(script)
  /\ Arrive(i, script[received + 1])
  /\ UNCHANGED lastArrival

NextGroups ==
  \/ \E i \in Slots : ReceiveAny(i)
  \/ \E i \in Slots : StepBurst(i)
  \/ Tick

SpecGroups == InitGroups /\ [][NextGroups]_vars

\* the events are handled one after another: each invocation has ended when
\* the next event arrives
NextCaptions ==
  \/ \E i \in Slots : ReceiveScript(i)
  \/ \E i \in Slots : StepBurst(i)
  \/ Tick

SpecCaptions == InitCaptions /\ [][NextCaptions]_vars

----------------------------------------------------------------------------
(* Claims *)

NoFaultYet == faultsLeft = MaxFaults

\* the edges of the flow: category -> topic -> message -> (sentiment_review |
\* confirm), rewrite -> message, cancel or /start -> category, a delivery
\* deletes the session, /start creates it
StepEdge(a, b) ==
  \/ a = b
  \/ <<a, b>> \in {<<"category", "topic">>, <<"topic", "message">>,
                   <<"message", "confirm">>, <<"message", "sentiment_review">>,
                   <<"sentiment_review", "message">>, <<"confirm", "message">>,
                   <<"sentiment_review", "none">>, <<"confirm", "none">>}
  \/ b = "category"

\* C1: for every inbound event the stored step changes only along the
\* enumerated edges of the flow; no event makes step skip an intermediate
\* step (stated for runs in which no KV or outbound operation has failed).
C1_StepFollowsEdges ==
  [][NoFaultYet' => StepEdge(kv.step, kv'.step)]_vars

\* C2: a second confirm:send that immediately follows a successful one makes
\* no admin delivery and is answered as an expired session (stated for a
\* second invocation in which no operation fails).
C2_SecondSendExpired ==
  [][(justSent /\ faultsLeft' = faultsLeft)
       => /\ out'.admin = NoCall
          /\ deliveries' = deliveries
          /\ (out'.reply # "" => out'.reply = "expired")]_vars

\* C3: when the admin send fails, the session is left exactly as it was,
\* clearSession is not called (the invocation ends there), no delivery is
\* counted and the user receives the sending-failed message.
C3_FailedSendKeepsSession ==
  [][\A i \in Slots :
       (h[i].pc = "admin_send" /\ h'[i] # h[i] /\ faultsLeft' < faultsLeft)
         => /\ kv' = kv
            /\ h'[i].pc = "idle"
            /\ out'.reply = "send_error"
            /\ out'.admin = NoCall
            /\ deliveries' = deliveries]_vars

\* a send has just failed on a complete session awaiting confirmation
C3_Witness ==
  /\ out.reply = "send_error"
  /\ out.ev = Cb("confirm", "send")
  /\ kv # NoSession
  /\ kv.step = "confirm"
  /\ deliveries = 0

\* C4: a burst of N >= 2 media-group events, each arriving within the quiet
\* window of the previous one, ends with exactly one confirmation build.
C4_ExactlyOneBuild ==
  (Quiescent /\ received >= 2) => builds = 1

\* C5: after all handlers of such a burst have finished, mediaItems holds
\* the N attachments in arrival order, none dropped or duplicated.
C5_AllItemsInOrder ==
  (Quiescent /\ received >= 2) => kv.mediaItems = Arrived(received)

\* C6: every burst is eventually closed: a handler that skips the build
\* after its wait is followed by a handler that builds, and the session
\* then reaches step 'confirm' with every handler finished.
C6_BurstEventuallyClosed ==
  /\ (out.reply = "skipped") ~> out.build
  /\ (out.reply = "skipped") ~> (Quiescent /\ kv.step = "confirm")

\* a burst in which one handler skipped and a later one built
C6_Witness ==
  /\ Quiescent
  /\ received >= 2
  /\ builds = 1
  /\ kv.step = "confirm"
  /\ out.ev.gid = "g1"

\* C7: when two handlers run concurrently and each calls updateSession with
\* its own fields, no write loses what the other has stored: a put keeps
\* every stored field that is not among its own updates.
C7_NoLostUpdate ==
  [][\A i \in Slots :
       (h[i].pc = "us_put" /\ h'[i] # h[i] /\ kv' # kv /\ kv # NoSession
          /\ NoFaultYet')
         => \A f \in DOMAIN kv \ DOMAIN h[i].upd :
              f \in DOMAIN kv' /\ kv'[f] = kv[f]]_vars

\* the strings a formatted admin message is made of
PayloadParts(call) ==
  {call.text.emoji, call.text.category, call.text.topic, call.text.body}

\* the stored session after each event of the scripted flow category:c,
\* topic:t, text x, confirm:send, and the number of deliveries
FlowSteps(c, t, x) ==
  /\ (Quiescent /\ received = 1) => (kv.step = "topic" /\ kv.category = c)
  /\ (Quiescent /\ received = 2)
       => (kv.step = "message" /\ kv.category = c /\ kv.topic = t)
  /\ (Quiescent /\ received = 3)
       => (kv.step = "confirm" /\ kv.category = c /\ kv.topic = t
             /\ kv.messageText = x /\ kv.mediaItems = <<>>)
  /\ (received <= 3) => deliveries = 0
  /\ (Quiescent /\ received >= 4) => (kv = NoSession /\ deliveries = 1)
  /\ deliveries <= 1

\* C8 as stated: in the flow category:c, topic:t, text x, confirm:send by a
\* trusted user with a fresh session (nothing failing), step becomes topic
\* with category c, message with topic t, confirm; exactly one sendMessage
\* call goes to the admin chat, its payload contains c, t and x; the
\* session is absent afterwards.
C8_PayloadCarriesKeys ==
  LET c == script[1].arg
      t == script[2].arg
      x == script[3].text
  IN NoFaultYet =>
       /\ FlowSteps(c, t, x)
       /\ out.admin # NoCall
            => /\ out.admin.method = "sendMessage"
               /\ {c, t, x} \subseteq PayloadParts(out.admin)

\* C8 amended: the same flow; the payload of the one sendMessage call
\* carries the display names formatAdminMessage maps c and t to, and x
\* verbatim.
C8_FlowDelivers ==
  LET c == script[1].arg
      t == script[2].arg
      x == script[3].text
  IN NoFaultYet =>
       /\ FlowSteps(c, t, x)
       /\ out.admin # NoCall
            => /\ out.admin.method = "sendMessage"
               /\ out.admin.media = <<>>
               /\ out.admin.text.category = CategoryName(c)
               /\ out.admin.text.topic = TopicName(t)
               /\ out.admin.text.body = x

\* the flow has been handled to the end: one delivery, the session gone
C8_Witness ==
  /\ NoFaultYet
  /\ received = 4
  /\ out.reply = "sent"
  /\ deliveries = 1
  /\ kv = NoSession

\* the responses apiRequest has consumed so far that are of a kind in S
Consumed(S) == {k \in 1..api.fetches : api.script[k] \in S}

\* C9: if every attempt ends in a transient failure (network error or 5xx),
\* apiRequest makes exactly 3 attempts and then throws, having slept 1 s
\* after the first and 2 s after the second attempt and not after the last.
C9_ThreeAttemptsThenFail ==
  (\A k \in 1..3 : api.script[k] \in Transient)
    => /\ api.fetches <= 3
       /\ api.pc # "returned"
       /\ api.pc = "thrown"
            => /\ api.fetches = 3
               /\ api.sleeps = <<1000, 2000>>
               /\ api.result \in Transient

\* three transient failures in a row have ended the call
C9_Witness ==
  /\ \A k \in 1..3 : api.script[k] \in Transient
  /\ api.pc = "thrown"
  /\ api.fetches = 3

\* C10: a 429 response with retry_after does not consume a retry attempt:
\* when only transient failures and such responses have come, the call
\* gives up only after 3 transient failures, however many 429s came.
C10_RateLimitKeepsAttempts ==
  (api.pc = "thrown"
     /\ Consumed(Transient \cup {"http_429_retry_after"}) = 1..api.fetches)
    => Cardinality(Consumed(Transient)) = 3

\* C11: when an attempt gets HTTP 429 with retry_after = N seconds, the
\* client waits N seconds, not the exponential backoff delay of that
\* attempt, and then makes the next attempt.
C11_RateLimitWaitThenRetry ==
  [][/\ (api.pc = "fetch" /\ api'.pc = "rate_wait")
          => api'.sleeps = Append(api.sleeps, RetryAfterSec * 1000)
     /\ api.pc = "rate_wait" => api'.pc = "fetch"]_vars

\* responses the outbound client is not to retry
NonRetryable == {"http_4xx", "bad_json"}

\* C12: a non-retryable failure (4xx other than 429, or an unparsable body)
\* makes apiRequest fail immediately: exactly one attempt, no backoff sleep.
C12_NonRetryableFailsAtOnce ==
  (api.script[1] \in NonRetryable)
    => /\ api.fetches <= 1
       /\ api.sleeps = <<>>
       /\ api.fetches = 1 => api.pc = "thrown"

\* C13: a content event (text, single attachment or media-group item) that
\* arrives while the stored step is not 'message' is rejected whatever its
\* shape: the handler ends without calling updateSession and without
\* building a confirmation, so step, messageText and mediaItems stay.
C13_ContentOutsideMessageRejected ==
  [][\A i \in Slots :
       (h[i].pc = "entry" /\ h[i].ev.type = "msg" /\ h'[i] # h[i]
          /\ trusted /\ kv # NoSession /\ kv.step # "message" /\ NoFaultYet')
         => /\ h'[i].pc = "idle"
            /\ out'.reply = "follow_instructions"
            /\ ~out'.build
            /\ kv' = kv]_vars

\* position of a step in the flow
StepRank(step) ==
  CASE step = "category" -> 1
    [] step = "topic" -> 2
    [] step = "message" -> 3
    [] OTHER -> 4

\* a session at step 'category' holds nothing of an earlier flow
FullyReset(s) ==
  (s # NoSession /\ s.step = "category")
    => /\ s.category = Null
       /\ s.topic = Null
       /\ s.messageText = Null
       /\ s.mediaItems = <<>>

\* C14: step never resets partially: a stored session at step 'category'
\* has category, topic and messageText null and no attachments, and the
\* only write that returns to an earlier step while keeping category and
\* topic is rewrite (to 'message', content cleared); also after /start on
\* an existing session.
C14_NoPartialReset ==
  [][NoFaultYet' =>
       /\ FullyReset(kv')
       /\ (kv # NoSession /\ kv' # NoSession
             /\ StepRank(kv'.step) < StepRank(kv.step)
             /\ kv.category # Null /\ kv'.category = kv.category
             /\ kv'.topic = kv.topic)
            => /\ kv'.step = "message"
               /\ kv'.messageText = Null
               /\ kv'.mediaItems = <<>>]_vars

\* C15: once category (topic) is set, no event changes it to another value
\* until the flow is restarted by cancel or /start; a second category: or
\* topic: callback in a later step does not overwrite it.
C15_CategoryTopicSetOnce ==
  [][(NoFaultYet' /\ kv # NoSession /\ kv' # NoSession) =>
       /\ (kv.category # Null /\ kv.step # "category"
             /\ kv'.category # kv.category) => kv'.category = Null
       /\ (kv.topic # Null /\ kv.step \notin {"category", "topic"}
             /\ kv'.topic # kv.topic) => kv'.topic = Null]_vars

\* a media burst is open: category and topic are chosen, attachments of a
\* group are stored and no confirmation has been built for them yet
OpenBurst(s) ==
  /\ s # NoSession
  /\ s.category # Null
  /\ s.topic # Null
  /\ s.mediaGroupId # Null
  /\ s.step = "message"
  /\ Len(s.mediaItems) > 0

\* C16: when the handler of a non-grouped content event finds a media burst
\* still open, it first finalizes the burst with a confirmation build for
\* its attachments; it does not go on to overwrite or drop them.
C16_OpenBurstFinalizedFirst ==
  [][\A i \in Slots :
       (h[i].pc = "entry" /\ h[i].ev.type = "msg" /\ h[i].ev.gid = Null
          /\ h'[i] # h[i] /\ trusted /\ OpenBurst(kv) /\ NoFaultYet')
         => /\ out'.build
            /\ "mediaItems" \notin DOMAIN h'[i].upd]_vars

\* C17: when media-group event K arrives after the quiet window following
\* event K-1 has elapsed and the check of K-1 has closed the burst, two
\* separate confirmation builds occur: each event's own handler builds.
C17_LateEventBuildsAgain ==
  NoFaultYet =>
    /\ Quiescent => builds = received
    /\ out.build => (out.ev = BurstEvent(received) /\ builds = received)

\* the second event came after the first burst was closed and has built
C17_Witness ==
  /\ NoFaultYet
  /\ Quiescent
  /\ received = 2
  /\ builds = 2
  /\ kv.step = "confirm"

\* a session reset to the start of the flow
ResetSession(s) ==
  /\ s # NoSession
  /\ s.step = "category"
  /\ s.category = Null
  /\ s.topic = Null
  /\ s.messageText = Null
  /\ s.mediaItems = <<>>
  /\ s.mediaGroupId = Null
  /\ s.sentiment = Null

\* C18: handling confirm:cancel on a session in step 'confirm' leaves a
\* session with step 'category', category, topic and messageText null,
\* mediaItems empty, mediaGroupId and sentiment null: the handler's first
\* write stores such a session, and its second write (the flow message id),
\* made on the session the first one stored, leaves that session as it was.
C18_CancelResets ==
  [][\A i \in Slots :
       (h[i].pc = "us_put" /\ h[i].ev = Cb("confirm", "cancel")
          /\ h'[i] # h[i] /\ faultsLeft' = faultsLeft)
         => /\ (h[i].site = "cancel" /\ kv # NoSession /\ kv.step = "confirm")
                 => (ResetSession(kv') /\ h'[i].site = "cancel_flow")
            /\ (h[i].site = "cancel_flow" /\ h[i].snap = kv
                  /\ ResetSession(kv))
                 => (kv' = kv /\ h'[i].pc = "idle")]_vars

\* a confirmation was built, then confirm:cancel was handled to its end
C18_Witness ==
  /\ NoFaultYet
  /\ Quiescent
  /\ received = 2
  /\ builds = 1
  /\ out.ev = Cb("confirm", "cancel")
  /\ out.reply = "category_prompt"
  /\ ResetSession(kv)

\* every event but /start: a text or media message, a callback, another
\* command
NonActivation(ev) ==
  ev.type \in {"msg", "cb"} \/ (ev.type = "cmd" /\ ev.data # "/start")

\* 'Privet! Etot bot poka ne aktiven.', 'Dostup zapreshchen',
\* 'Sessiya istekla. Nachnite zanovo s /start', 'Neizvestnaya komanda. ...'
GuidanceReplies == {"neutral", "denied", "expired", "unknown_command"}

\* C19: for a user with no session, every non-activation event (a text or
\* media message, any callback, an unknown command) writes nothing to the
\* session store, is answered with a neutral or guidance message, and its
\* handler ends there: it starts no update, builds no confirmation and
\* calls no admin method.
C19_NoSessionNoWrite ==
  [][\A i \in Slots :
       (h[i].pc = "entry" /\ h'[i] # h[i] /\ kv = NoSession
          /\ NonActivation(h[i].ev))
         => /\ h'[i].pc = "idle"
            /\ kv' = NoSession
            /\ out'.reply \in GuidanceReplies
            /\ out'.admin = NoCall
            /\ ~out'.build]_vars

\* a trusted user without session pressed a button and was told to start
\* again
C19_Witness ==
  /\ NoFaultYet
  /\ Quiescent
  /\ trusted
  /\ kv = NoSession
  /\ out.ev \in Callbacks
  /\ out.reply = "expired"

C21_TtlRestartsOnWrite ==
  [][/\ \A i \in Slots :
          (h[i].pc = "us_put" /\ h'[i] # h[i] /\ faultsLeft' = faultsLeft)
            => (kv' # NoSession /\ kvExpiry' = now + SESSION_TTL * 1000)
     /\ (kv # NoSession /\ now' # now)
          => (kv' = NoSession <=> now' >= kvExpiry)
     /\ kv' # NoSession => now' < kvExpiry'
     /\ \A i \in Slots :
          (h[i].pc = "entry" /\ h'[i] # h[i] /\ kv = NoSession)
            => (out'.reply = "expired" /\ h'[i].pc = "idle"
                  /\ kv' = NoSession)]_vars

\* a text was recorded, then the session expired, and the next event was
\* answered as for a user with no session
C21_Witness ==
  /\ Quiescent
  /\ received = 2
  /\ builds = 1
  /\ kv = NoSession
  /\ out.reply = "expired"
  /\ now >= SESSION_TTL * 1000 + IdleTickSec * 1000

\* C22: when a KV read fails, getSession returns absent instead of
\* throwing, and the message or callback handler that called it goes on as
\* for a user with no session: it ends with the reply such a user gets (the
\* neutral one if it was the trust read that failed), writes nothing and
\* does not crash; a confirm:send whose fresh read fails ends the same way.
C22_ReadFailureIsAbsent ==
  [][\A i \in Slots :
       (h'[i] # h[i] /\ trusted /\ kv # NoSession /\ faultsLeft' < faultsLeft)
         => /\ (h[i].pc = "entry" /\ h[i].ev.type = "msg")
                 => (h'[i].pc = "idle" /\ kv' = kv
                       /\ out'.reply \in {"expired", "neutral"})
            /\ (h[i].pc = "entry" /\ h[i].ev.type = "cb")
                 => (h'[i].pc = "idle" /\ kv' = kv
                       /\ out'.reply \in {"expired", "denied"})
            /\ h[i].pc = "send_fresh"
                 => (h'[i].pc = "idle" /\ kv' = kv /\ out'.reply = "expired"
                       /\ out'.admin = NoCall)]_vars

\* the session read of a message failed although the session is stored, and
\* the user was told to start again
C22_Witness ==
  /\ Quiescent
  /\ trusted
  /\ kv # NoSession
  /\ faultsLeft = 0
  /\ out.ev.type = "msg"
  /\ out.reply = "expired"

\* C23: when the KV put of updateSession fails, the failure aborts the
\* current step: the stored session stays as it was, the invocation ends
\* with an error reply and performs none of its later actions; this holds
\* for the write of every step, the write of step 'confirm' included.
C23_WriteFailureAborts ==
  [][\A i \in Slots :
       (h[i].pc = "us_put" /\ h'[i] # h[i] /\ faultsLeft' < faultsLeft)
         => /\ kv' = kv
            /\ h'[i].pc = "idle"
            /\ out'.reply = "error"
            /\ ~out'.build
            /\ out'.admin = NoCall]_vars

\* C24: the HTTP endpoint answers every request with status 200 whatever
\* the internal outcome: wrong method, wrong content type, missing
\* configuration, unparsable JSON, or a failure inside event handling.
C24_AlwaysStatus200 ==
  http.pc = "responded" => http.status = 200

\* C25: forwardMessageToAdmin makes exactly one outbound send to the admin
\* chat per delivery, chosen by the number of attachments: none, one text
\* send; exactly one, one send of that attachment (photo, video or document)
\* with the formatted text as its caption; two or more, one media-group send
\* in which only the first item carries the formatted text as caption.
C25_OneSendByAttachmentCount ==
  [][\A i \in Slots :
       (h[i].pc = "admin_send" /\ h'[i] # h[i])
         => LET session == h[i].snap
                items == session.mediaItems
                call == out'.admin
            IN /\ deliveries' = deliveries + 1
               /\ call.text = formatAdminMessage(session)
               /\ call.media = items
               /\ Len(call.captions) = Len(items)
               /\ Len(items) = 0 => call.method = "sendMessage"
               /\ Len(items) = 1
                    => /\ call.method =
                            (CASE items[1].type = "photo" -> "sendPhoto"
                               [] items[1].type = "video" -> "sendVideo"
                               [] items[1].type = "document" -> "sendDocument")
                       /\ call.captions[1] = <<formatAdminMessage(session)>>
               /\ Len(items) >= 2
                    => /\ call.method = "sendMediaGroup"
                       /\ call.captions[1] = <<formatAdminMessage(session)>>
                       /\ \A k \in 2..Len(items) : call.captions[k] = <<>>]_vars

\* a session with three attachments was delivered as one media group
C25_Witness ==
  /\ deliveries = 1
  /\ out.admin # NoCall
  /\ out.admin.method = "sendMediaGroup"
  /\ Len(out.admin.media) = 3
  /\ out.admin.captions[3] = <<>>

\* C26: when non-empty content has been recorded in step 'message', the
\* moderation check runs if it is enabled, and the step then becomes
\* 'sentiment_review' if the content is labelled NEGATIVE and 'confirm'
\* otherwise (label clear, moderation disabled, or no text to score).
C26_FlaggedContentIsReviewed ==
  [][\A i \in Slots :
       (h[i].pc = "us_put" /\ h[i].site = "confirm" /\ h'[i] # h[i]
          /\ kv # NoSession /\ kv.step = "message" /\ h[i].snap = kv)
         => kv'.step =
              (IF analyzeSentiment(kv.messageText, env, TRUE) = "NEGATIVE"
               THEN "sentiment_review" ELSE "confirm")]_vars

\* the fields confirm:rewrite may change
RewrittenFields ==
  {"step", "messageText", "mediaItems", "mediaGroupId", "sentiment"}

\* C27: handling confirm:rewrite sets step to 'message' and clears only the
\* content fields (messageText null, mediaItems empty, mediaGroupId null,
\* sentiment null); category, topic and createdAt, like every other field,
\* keep their values.
C27_RewriteClearsContentOnly ==
  [][\A i \in Slots :
       (h[i].pc = "us_put" /\ h[i].site = "rewrite" /\ h'[i] # h[i]
          /\ faultsLeft' = faultsLeft /\ kv # NoSession /\ h[i].snap = kv)
         => /\ kv'.step = "message"
            /\ kv'.messageText = Null
            /\ kv'.mediaItems = <<>>
            /\ kv'.mediaGroupId = Null
            /\ kv'.sentiment = Null
            /\ kv'.category = kv.category
            /\ kv'.topic = kv.topic
            /\ kv'.createdAt = kv.createdAt
            /\ DOMAIN kv' = DOMAIN kv
            /\ \A f \in DOMAIN kv \ RewrittenFields : kv'[f] = kv[f]]_vars

\* a session awaiting confirmation was sent back to step 'message' with its
\* category and topic
C27_Witness ==
  /\ NoFaultYet
  /\ Quiescent
  /\ out.ev = Cb("confirm", "rewrite")
  /\ out.reply = "rewrite_prompt"
  /\ kv = AtMessage("idea", "salary")
  /\ received = 1

\* C28: in step 'message', a non-grouped message with neither text or
\* caption nor a photo, video or document is rejected: the session is not
\* written, the step stays 'message', no confirmation is built, and a
\* guidance message is sent.
C28_EmptyMessageRejected ==
  [][\A i \in Slots :
       (h[i].pc = "entry" /\ h'[i] # h[i] /\ h[i].ev.type = "msg"
          /\ h[i].ev.gid = Null /\ ~HasText(h[i].ev.text)
          /\ Len(h[i].ev.media) = 0
          /\ trusted /\ kv # NoSession /\ kv.step = "message"
          /\ faultsLeft' = faultsLeft)
         => /\ h'[i].pc = "idle"
            /\ kv' = kv
            /\ kv'.step = "message"
            /\ ~out'.build
            /\ builds' = builds
            /\ out'.reply = "send_text_or_media"]_vars

\* an empty message was answered with the guidance, the session untouched
C28_Witness ==
  /\ NoFaultYet
  /\ Quiescent
  /\ received = 1
  /\ out.ev = Msg("", <<>>, Null)
  /\ out.reply = "send_text_or_media"
  /\ kv = AtMessage("idea", "salary")
  /\ builds = 0

\* what the claim lets the admin payload depend on
Content(session) ==
  [category |-> session.category, topic |-> session.topic,
   messageText |-> session.messageText, mediaItems |-> session.mediaItems]

\* C29: the payload delivered to the admin chat depends only on the
\* session's category, topic, messageText and mediaItems: the call a delivery
\* makes is the one any other sender (user id, chat id) would make from a
\* session with the same four fields, so it carries no sender information.
C29_PayloadIgnoresSender ==
  [][\A i \in Slots :
       (h[i].pc = "admin_send" /\ h'[i] # h[i])
         => /\ out'.admin # NoCall
            /\ \A u \in Senders :
                 out'.admin = forwardMessageToAdmin(u.userId, u.chatId,
                                                    Content(h[i].snap), env)]_vars

\* the second sender's photo with a caption was delivered
C29_Witness ==
  /\ sender = Sender("user-2")
  /\ deliveries = 1
  /\ out.admin # NoCall
  /\ out.admin.method = "sendPhoto"
  /\ out.admin.text.body = "great job"

\* C30: whenever TEST_MODE is true, every delivery goes to
\* ADMIN_CHAT_ID_TEST and the production chat ADMIN_CHAT_ID receives
\* nothing, for every configuration validateEnv accepts.
C30_TestModeSparesProduction ==
  (validateEnv(env).valid /\ getConfig(env).testMode /\ out.admin # NoCall)
    => /\ out.admin.chat_id = env.ADMIN_CHAT_ID_TEST
       /\ out.admin.chat_id # env.ADMIN_CHAT_ID


\* C31: the audit entry (key test_log:<timestamp>, expirationTtl 2592000) is
\* written only when TEST_MODE is set and only by the step that follows a
\* successful delivery to the admin chat; with TEST_MODE unset the delivery
\* is followed by clearSession alone and no key is written; whether the
\* audit write succeeds or fails, clearSession is what the invocation does
\* next, and clearSession writes nothing but the deletion of the session
C31_AuditOnlyInTestMode ==
  [][/\ testLog' # testLog
          => /\ getConfig(env).testMode
             /\ deliveries >= 1
             /\ \E i \in Slots :
                  /\ h[i].pc = "log"
                  /\ testLog' = testLog \cup
                       {TestLogEntry(sender.userId, h[i].snap, env, now)}
             /\ \A entry \in testLog' \ testLog :
                  entry.key = now /\ entry.expirationTtl = 2592000
     /\ Cardinality(testLog') <= deliveries'
     /\ \A i \in Slots :
          /\ (h[i].pc = "admin_send" /\ deliveries' = deliveries + 1)
               => /\ h'[i].pc = IF getConfig(env).testMode THEN "log"
                                ELSE "clear"
                  /\ testLog' = testLog
                  /\ kv' = kv
          /\ (h[i].pc = "log" /\ h'[i] # h[i])
               => h'[i].pc = "clear" /\ kv' = kv
          /\ (h[i].pc = "clear" /\ h'[i] # h[i])
               => /\ testLog' = testLog
                  /\ kv' \in {kv, NoSession}
                  /\ faultsLeft' = faultsLeft => kv' = NoSession]_vars

\* TEST_MODE is set, the delivery was made, the audit entry is in the store
\* and the session is deleted
C31_Witness ==
  /\ getConfig(env).testMode
  /\ deliveries = 1
  /\ testLog # {}
  /\ kv = NoSession
  /\ out.reply = "sent"


C33_DeliveryFromCompleteSession ==
  [][\A i \in Slots :
       (h[i].pc = "admin_send" /\ deliveries' = deliveries + 1)
         => /\ h[i].snap.category # Null
            /\ h[i].snap.topic # Null
            /\ (HasText(h[i].snap.messageText)
                  \/ h[i].snap.mediaItems # <<>>)]_vars


\* C34: with no failure injected, a confirm:send that delivers a confirmed
\* session is the first delivery: two confirm:send callbacks of the same
\* user that both read the session before either clears it do not both
\* deliver
C34_ConcurrentSendsDeliverOnce ==
  [][\A i \in Slots :
       (h[i].pc = "admin_send" /\ deliveries' = deliveries + 1
          /\ h[i].snap.step = "confirm" /\ NoFaultYet')
         => deliveries = 0]_vars


\* C35: once a delivery has been made and the session deleted, the session
\* stays absent until the write of the next /start: with no failure
\* injected, no other write (of a media-group handler, of cancel, of the
\* confirmation build) stores a session again
C35_DeletedSessionStaysAbsent ==
  [][(deliveries >= 1 /\ kv = NoSession /\ kv' # NoSession /\ NoFaultYet')
       => \E i \in Slots :
            h[i].pc = "us_put" /\ h[i].site = "start" /\ h'[i] # h[i]]_vars


\* C36: a write of updateSession over an existing session changes only the
\* fields named in its updates: every other stored field, createdAt
\* included, is in the written session with the value it had, also when the
\* read inside updateSession failed and the write succeeded
C36_UpdateKeepsOtherFields ==
  [][\A i \in Slots :
       (h[i].pc = "us_put" /\ h'[i] # h[i] /\ kv # NoSession)
         => \A f \in DOMAIN kv \ DOMAIN h[i].upd :
              f \in DOMAIN kv' /\ kv'[f] = kv[f]]_vars


\* C37: apiRequest ends for every sequence of responses, a stream of 429
\* responses with a wait hint included: it never makes more than 3 fetch
\* calls, and it comes to its end, with the data returned or an error thrown
C37_ApiRequestTerminates ==
  /\ [](api.fetches <= ApiRetries)
  /\ <>[](/\ api.pc \in {"returned", "thrown"}
          /\ api.pc = "returned" <=> api.result = "data")

\* three 429 responses with a wait hint in a row: three fetches, three
\* waits, then the throw after the loop
C37_Witness ==
  /\ \A k \in 1..3 : api.script[k] = "http_429_retry_after"
  /\ api.fetches = 3
  /\ Len(api.sleeps) = 3
  /\ api.pc = "thrown"
  /\ api.result = "All retry attempts exhausted"


\* the events of the media group g among the first n events
OfGroup(g, n) == {k \in 1..n : script[k].gid = g}

\* C38: the attachments of a stored session come from one logical message:
\* with mediaGroupId null they are those of one message, otherwise each was
\* carried by an event whose media_group_id is the stored mediaGroupId, and
\* so was the stored text if there is one; an event of another media group
\* has replaced what was stored and has not appended to it
C38_ItemsOfOneMessage ==
  kv # NoSession =>
    LET ids == {kv.mediaItems[k].fileId : k \in DOMAIN kv.mediaItems}
    IN IF kv.mediaGroupId = Null
       THEN Cardinality(ids) <= 1
       ELSE /\ ids \subseteq OfGroup(kv.mediaGroupId, received)
            /\ kv.messageText
                 \in {""} \cup {script[k].text :
                                  k \in OfGroup(kv.mediaGroupId, received)}

\* an event of the group g2 came after one of the group g1 had been stored:
\* the session holds the attachment of the second event alone
C38_Witness ==
  /\ Quiescent
  /\ received = 2
  /\ script[1].gid = "g1"
  /\ script[2].gid = "g2"
  /\ kv.mediaGroupId = "g2"
  /\ kv.mediaItems = Photo(2)
  /\ kv.messageText = script[2].text


\* the burst the n-th event belongs to: the events up to n that came in a
\* row with its media_group_id
BurstOf(n) ==
  {k \in 1..n : \A j \in k..n : script[j].gid = script[n].gid}

\* the caption of the first event of S that has one, '' if none has
FirstCaption(S) ==
  LET with == {k \in S : script[k].text # ""}
  IN IF with = {} THEN ""
     ELSE script[CHOOSE k \in with : \A j \in with : k <= j].text

\* C39: when the events of a media burst have been handled one after
\* another (the burst began the run or followed an event of another media
\* group), the stored messageText is the first non-empty caption among the
\* events of the burst in arrival order, '' when none has a caption: a later
\* caption does not replace an earlier one
C39_FirstCaptionWins ==
  LET n == received
      first == CHOOSE k \in BurstOf(n) : \A j \in BurstOf(n) : k <= j
  IN (/\ Quiescent
      /\ n >= 1
      /\ script[n].gid # Null
      /\ first = 1 \/ script[first - 1].gid # Null)
       => /\ kv # NoSession
          /\ kv.mediaGroupId = script[n].gid
          /\ kv.messageText = FirstCaption(BurstOf(n))

\* a burst of three events, the first without caption, the second and the
\* third with one: the caption of the second is stored
C39_Witness ==
  /\ Quiescent
  /\ received = 3
  /\ \A k \in 1..3 : script[k].gid = "g1"
  /\ script[1].text = ""
  /\ script[2].text = "second"
  /\ script[3].text = "third"
  /\ kv.messageText = "second"
  /\ Len(kv.mediaItems) = 3

====
